---- MODULE Spec2Model ----
(***************************************************************************)
(* ADR Kit: the policy compliance engine behind the MCP tools of           *)
(* adr_kit/mcp/server.py (adr_create, adr_approve, adr_supersede,          *)
(* adr_validate, adr_guard) together with the collaborators those tools    *)
(* call: PolicyExtractor, ImmutabilityManager, SemanticIndex, GuardSystem. *)
(***************************************************************************)
EXTENDS Integers, Sequences, FiniteSets, TLC

(***************************************************************************)
(* Bounds of the model.                                                    *)
(***************************************************************************)
\* number of clauses a decision's prose is made of (SpecExtract)
MaxClauses == 2
\* number of ADR files the ADR directory may hold (Spec)
MaxAdrs == 2
\* number of adr_create / adr_approve / adr_supersede calls in one
\* behaviour (Spec); also the largest lock timestamp
MaxTime == 4
\* number of decisions in the directory the guard checks (SpecGuard)
MaxGuardAdrs == 1
\* number of hunks of a diff (SpecGuard)
MaxHunks == 2
\* number of decisions in the directory that is indexed and searched
\* (SpecIndex)
MaxIndexAdrs == 2

\* steps of one workflow
MaxSteps == 3

\* characters of a string argument of a tool call
MaxStrLen == 3

\* adr_create calls running at the same time
MaxCreators == 2

(***************************************************************************)
(* Common helpers.                                                         *)
(***************************************************************************)
None == "none"

\* no ADR id given
NoId == 0

RECURSIVE SeqToSet(_)
SeqToSet(s) == IF s = <<>> THEN {} ELSE {Head(s)} \cup SeqToSet(Tail(s))

(***************************************************************************)
(* Policy Model (PolicyModel of core/model.py as used by server.py):       *)
(* imports.disallow / imports.prefer, the python language rules,           *)
(* boundaries and rationales.  NoPolicy is front_matter.policy = None.     *)
(***************************************************************************)
NoPolicy == [present |-> FALSE]

EmptyModel ==
    [disallow |-> {}, prefer |-> {}, python |-> {}, boundaries |-> {}, rationales |-> {}]

PolicyBlock(d, p, py, b, r) ==
    [present |-> TRUE, disallow |-> d, prefer |-> p, python |-> py,
     boundaries |-> b, rationales |-> r]

\* a Policy Model with all collections empty is "empty"
IsEmptyModel(m) ==
    /\ m.disallow = {}
    /\ m.prefer = {}
    /\ m.python = {}
    /\ m.boundaries = {}
    /\ m.rationales = {}

(***************************************************************************)
(* Policy Extractor.  Prose is a sequence of word tokens; matching is      *)
(* case-insensitive, so every token is lower-cased before it is compared.  *)
(***************************************************************************)
Lower(tok) ==
    CASE tok = "Django" -> "django"
      [] tok = "Avoid" -> "avoid"
      [] OTHER -> tok

StopWords == {"the", "a", "an", "and", "or", "of", "with", "over"}

\* tokens shorter than two characters
ShortTokens == {"a", "x"}

\* a symbol token is accepted only if it is identifier-like, at least two
\* characters long and not a stop word; the accepted symbol is lower-cased
normalize_symbol(tok) ==
    IF Lower(tok) \in StopWords \/ Lower(tok) \in ShortTokens
    THEN None
    ELSE Lower(tok)

\* rule 1: "use/prefer A instead of/over B"  -> A preferred, B disallowed
PreferOverAt(t, i) ==
    /\ i + 3 <= Len(t)
    /\ Lower(t[i]) \in {"prefer", "use"}
    /\ Lower(t[i + 2]) = "over"

\* rule 2: "replace A with B" -> A disallowed, B preferred
ReplaceWithAt(t, i) ==
    /\ i + 3 <= Len(t)
    /\ Lower(t[i]) = "replace"
    /\ Lower(t[i + 2]) = "with"

\* rule 3: "don't use / avoid / ban A" -> A disallowed
BanAt(t, i) ==
    /\ i + 1 <= Len(t)
    /\ Lower(t[i]) \in {"avoid", "ban"}

\* some directive phrase occurs in the prose, whatever becomes of its tokens
pattern_matched(t) ==
    \E i \in 1..Len(t) : PreferOverAt(t, i) \/ ReplaceWithAt(t, i) \/ BanAt(t, i)

pattern_disallow(t) ==
    {normalize_symbol(t[i + 3]) : i \in {j \in 1..Len(t) : PreferOverAt(t, j)}}
    \cup {normalize_symbol(t[i + 1]) : i \in {j \in 1..Len(t) : ReplaceWithAt(t, j)}}
    \cup {normalize_symbol(t[i + 1]) : i \in {j \in 1..Len(t) : BanAt(t, j)}}

pattern_prefer(t) ==
    {normalize_symbol(t[i + 1]) : i \in {j \in 1..Len(t) : PreferOverAt(t, j)}}
    \cup {normalize_symbol(t[i + 3]) : i \in {j \in 1..Len(t) : ReplaceWithAt(t, j)}}

\* the rules found in the prose, rejected tokens dropped
extract_pattern_policy(t) ==
    [EmptyModel EXCEPT !.disallow = pattern_disallow(t) \ {None},
                       !.prefer = pattern_prefer(t) \ {None}]

\* the rules of the structured block, taken field by field
extract_structured_policy(policy) ==
    IF policy.present
    THEN [disallow |-> policy.disallow, prefer |-> policy.prefer,
          python |-> policy.python, boundaries |-> policy.boundaries,
          rationales |-> policy.rationales]
    ELSE EmptyModel

\* variant: plain union of both sources, conflicts are not resolved
merge_policies_plain_union(s, p) ==
    [s EXCEPT !.disallow = s.disallow \cup p.disallow,
              !.prefer = s.prefer \cup p.prefer]

\* variant: on a conflict the pattern-derived disposition wins
merge_policies_pattern_wins(s, p) ==
    [s EXCEPT !.disallow = (s.disallow \ p.prefer) \cup p.disallow,
              !.prefer = (s.prefer \ p.disallow) \cup p.prefer]

\* merge: union of both sources; a symbol the structured block already
\* places keeps the structured disposition
merge_policies(s, p) ==
    [s EXCEPT !.disallow = s.disallow \cup (p.disallow \ s.prefer),
              !.prefer = s.prefer \cup (p.prefer \ s.disallow)]

extract_policy(adr) ==
    merge_policies(extract_structured_policy(adr.policy),
                   extract_pattern_policy(adr.content))

\* variant: any prose at all counts as a detected policy
has_extractable_policy_any_prose(adr) ==
    \/ ~IsEmptyModel(extract_policy(adr))
    \/ adr.content # <<>>

\* variant: a matched pattern whose token was rejected is forgotten
has_extractable_policy_model_only(adr) ==
    ~IsEmptyModel(extract_policy(adr))

has_extractable_policy(adr) ==
    \/ ~IsEmptyModel(extract_policy(adr))
    \/ pattern_matched(adr.content)

\* advisory warnings: an accepted decision needs one non-empty collection
validate_policy_completeness(adr) ==
    IF adr.status = "accepted" /\ IsEmptyModel(extract_policy(adr))
    THEN <<"no_policy">>
    ELSE <<>>

(***************************************************************************)
(* State.                                                                  *)
(*   adrs       the ADR directory: ADR number -> the ADR file's content    *)
(*   locks      the lock store (.project-index/adr-locks.json)             *)
(*   clock      the time, read for locked_at                               *)
(*   result     the response of the last tool call                         *)
(*   record     the decision handed to the Policy Extractor                *)
(*   extraction what the Policy Extractor returned for record              *)
(*   index      the persisted Semantic Index                               *)
(*   report     the response of the last adr_guard call                    *)
(***************************************************************************)
VARIABLES adrs, locks, clock, result, record, extraction, index, report

vars == <<adrs, locks, clock, result, record, extraction, index, report>>

lifecycleVars == <<adrs, locks, clock, result>>
extractVars == <<record, extraction>>
guardVars == <<index, report>>

NoResult == [op |-> "none"]
NoRecord == [policy |-> NoPolicy, content |-> <<>>, status |-> "proposed"]
NoExtraction == [done |-> FALSE]
NoIndex == [built |-> FALSE, hashes |-> <<>>, chunks |-> <<>>, status_by_id |-> <<>>]
NoReport == [op |-> "none"]

(***************************************************************************)
(* SpecExtract: the Policy Extractor applied to one decision record.       *)
(***************************************************************************)
StructLibs == {"flask", "django"}
Symbols == {"flask", "Django", "the"}

SymbolPairs == {ab \in Symbols \X Symbols : ab[1] # ab[2]}

Clauses ==
    {<<"prefer", ab[1], "over", ab[2]>> : ab \in SymbolPairs}
    \cup {<<"replace", ab[1], "with", ab[2]>> : ab \in SymbolPairs}
    \cup {<<"Avoid", a>> : a \in Symbols}
    \cup {<<"use", a>> : a \in Symbols}

RECURSIVE ProsesOf(_)
ProsesOf(n) ==
    IF n = 0 THEN {<<>>}
    ELSE ProsesOf(n - 1) \cup {p \o c : p \in ProsesOf(n - 1), c \in Clauses}

Policies ==
    {NoPolicy} \cup
    {PolicyBlock(d, p, {}, b, r) :
        d \in SUBSET StructLibs, p \in SUBSET StructLibs,
        b \in {{}, {"utils->components"}}, r \in {{}, {"r1"}}}

Records ==
    [policy : Policies, content : ProsesOf(MaxClauses), status : {"proposed", "accepted"}]

IdleLifecycle ==
    /\ adrs = <<>>
    /\ locks = <<>>
    /\ clock = 0
    /\ result = NoResult

IdleGuard ==
    /\ index = NoIndex
    /\ report = NoReport

InitExtract ==
    /\ record \in Records
    /\ extraction = NoExtraction
    /\ IdleLifecycle
    /\ IdleGuard

Extract ==
    /\ ~extraction.done
    /\ extraction' = [done |-> TRUE,
                      policy |-> extract_policy(record),
                      has_policy |-> has_extractable_policy(record),
                      warnings |-> validate_policy_completeness(record)]
    /\ UNCHANGED <<record, lifecycleVars, guardVars>>

NextExtract == Extract

SpecExtract == InitExtract /\ [][NextExtract]_vars

(***************************************************************************)
(* The ADR directory.  An ADR file holds its front matter (status,         *)
(* supersedes, superseded_by, policy), its content and its file mode.      *)
(* ADR number n stands for the id "ADR-000n".                              *)
(***************************************************************************)
ADRStatus == {"proposed", "accepted", "superseded", "deprecated"}

\* load_adr_template(): the fallback template, section headings only
load_adr_template == <<"context", "decision", "consequences", "alternatives">>

BanBody == <<"Avoid", "flask">>

Bodies == {load_adr_template, BanBody}

FlaskPolicy == PolicyBlock({"flask"}, {}, {}, {}, {})

PayloadPolicies == {NoPolicy, FlaskPolicy}

\* ADRCreatePayload: title (empty or not), status, policy, content (<<>> is
\* no content)
PayloadStatuses == {"proposed", "accepted"}

Payloads ==
    [title_empty : {FALSE}, status : PayloadStatuses, policy : PayloadPolicies,
     content : {<<>>}]
    \cup [title_empty : {FALSE}, status : PayloadStatuses, policy : {NoPolicy},
          content : {BanBody}]
    \cup {[title_empty |-> TRUE, status |-> "proposed", policy |-> NoPolicy,
           content |-> <<>>],
          [title_empty |-> FALSE, status |-> "superseded", policy |-> NoPolicy,
           content |-> <<>>]}

Max(S) == CHOOSE x \in S : \A y \in S : y <= x

\* find_adr_files + parse_adr_file: the ADR with this id, if any
find_adr(dir, id) == id \in DOMAIN dir

\* the part of an ADR file the extractor reads
AsRecord(adr) == [policy |-> adr.policy, content |-> adr.content, status |-> adr.status]

(***************************************************************************)
(* core/validate.py                                                        *)
(***************************************************************************)
validate_semantic_rules(id, adr) ==
    (IF adr.status = "superseded" /\ adr.superseded_by = <<>>
        THEN {[level |-> "error", rule |-> "superseded_requires_superseded_by"]} ELSE {})
    \cup (IF id \in SeqToSet(adr.supersedes)
        THEN {[level |-> "error", rule |-> "no_self_reference"]} ELSE {})
    \cup (IF id \in SeqToSet(adr.superseded_by)
        THEN {[level |-> "error", rule |-> "no_self_reference"]} ELSE {})
    \cup (IF adr.status = "proposed" /\ adr.superseded_by # <<>>
        THEN {[level |-> "warning", rule |-> "proposed_not_superseded"]} ELSE {})

\* ValidationResult.is_valid: no error-level issue (warnings are fine)
validate_adr_file(id, adr) ==
    [is_valid |-> ~(\E i \in validate_semantic_rules(id, adr) : i.level = "error"),
     issues |-> validate_semantic_rules(id, adr)]

(***************************************************************************)
(* Immutability Manager.                                                   *)
(***************************************************************************)
\* variant: the digest covers the whole front matter, status and links too
calculate_content_digest_all_fields(adr) ==
    <<"sha256", adr.policy, adr.content, adr.status, adr.supersedes, adr.superseded_by>>

\* content digest over the canonical form of the immutable part of the
\* decision; status and the supersession links stay mutable after approval.
\* SHA-256 is taken to be collision free.
calculate_content_digest(adr) == <<"sha256", adr.policy, adr.content>>

\* verify: recompute the digest of the on-disk decision and compare it with
\* the stored Lock Record; no Lock Record is not "tampered"
verify(dir, store, id) ==
    IF id \in DOMAIN store
    THEN [has_lock |-> TRUE,
          tampered |-> calculate_content_digest(dir[id]) # store[id].digest,
          expected_digest |-> store[id].digest,
          actual_digest |-> calculate_content_digest(dir[id])]
    ELSE [has_lock |-> FALSE,
          tampered |-> FALSE,
          expected_digest |-> <<>>,
          actual_digest |-> calculate_content_digest(dir[id])]

\* what the environment lets ImmutabilityManager.approve_adr do
IoOutcomes == {"ok", "lock_write_fails", "chmod_fails"}

\* chmod is only attempted with make_readonly
IoOutcomesFor(make_readonly) ==
    IF make_readonly THEN IoOutcomes ELSE IoOutcomes \ {"chmod_fails"}

\* variant: the lock store is rewritten with the new Lock Record only
approve_adr_drops_others(store, id, adr, make_readonly, now, io) ==
    IF io = "lock_write_fails"
    THEN [raised |-> TRUE, store |-> store, readonly |-> FALSE]
    ELSE LET ro == make_readonly /\ io # "chmod_fails"
             lock == [digest |-> calculate_content_digest(adr),
                      locked_at |-> now,
                      is_readonly |-> ro]
         IN [raised |-> FALSE,
             store |-> [k \in {id} |-> lock],
             lock |-> lock,
             readonly |-> ro]

\* variant: a failed chmod raises after the Lock Record has been written
approve_adr_chmod_raises(store, id, adr, make_readonly, now, io) ==
    IF io = "lock_write_fails"
    THEN [raised |-> TRUE, store |-> store, readonly |-> FALSE]
    ELSE LET lock == [digest |-> calculate_content_digest(adr),
                      locked_at |-> now,
                      is_readonly |-> make_readonly /\ io # "chmod_fails"]
         IN [raised |-> make_readonly /\ io = "chmod_fails",
             store |-> [k \in DOMAIN store \cup {id} |->
                           IF k = id THEN lock ELSE store[k]],
             lock |-> lock,
             readonly |-> make_readonly /\ io # "chmod_fails"]

\* approve_adr(adr, make_readonly): write (or overwrite) the Lock Record,
\* then, best effort, make the file read-only.  An unwritable lock store
\* raises; a failed chmod leaves the lock in place with is_readonly = false.
approve_adr(store, id, adr, make_readonly, now, io) ==
    IF io = "lock_write_fails"
    THEN [raised |-> TRUE, store |-> store, readonly |-> FALSE]
    ELSE LET ro == make_readonly /\ io # "chmod_fails"
             lock == [digest |-> calculate_content_digest(adr),
                      locked_at |-> now,
                      is_readonly |-> ro]
         IN [raised |-> FALSE,
             store |-> [k \in DOMAIN store \cup {id} |->
                           IF k = id THEN lock ELSE store[k]],
             lock |-> lock,
             readonly |-> ro]

(***************************************************************************)
(* mcp/server.py: adr_create                                               *)
(***************************************************************************)
\* the ADR object built from the payload (front matter + content)
NewAdr(payload) ==
    [status |-> payload.status,
     content |-> IF payload.content # <<>> THEN payload.content ELSE load_adr_template,
     policy |-> payload.policy,
     supersedes |-> <<>>,
     superseded_by |-> <<>>,
     readonly |-> FALSE]

\* "Get next ADR ID": highest existing number plus one
next_adr_num(dir) == IF DOMAIN dir = {} THEN 1 ELSE Max(DOMAIN dir) + 1

\* the decimal digits of a natural number
RECURSIVE DigitsOf(_)
DigitsOf(n) == IF n < 10 THEN <<n>> ELSE Append(DigitsOf(n \div 10), n % 10)

RECURSIVE ZeroPad(_, _)
ZeroPad(d, width) == IF Len(d) >= width THEN d ELSE ZeroPad(<<0>> \o d, width)

\* f"ADR-{num:04d}": the digits after the "ADR-" prefix; at least four,
\* more when the number needs them
format_adr_id(num) == ZeroPad(DigitsOf(num), 4)

\* int(num_str) of the digits after the prefix
RECURSIVE id_num(_)
id_num(d) == IF d = <<>> THEN 0 ELSE 10 * id_num(SubSeq(d, 1, Len(d) - 1)) + d[Len(d)]

\* ADRFrontMatter.id: pattern ^ADR-\d{4}$
valid_adr_id(d) == Len(d) = 4

\* policy_validation: completeness is only looked at when the payload has
\* a policy or the extractor reports an extractable one
policy_validation(payload, adr) ==
    IF payload.policy.present \/ has_extractable_policy(AsRecord(adr))
    THEN validate_policy_completeness(AsRecord(adr))
    ELSE <<>>

\* extracted_policy.imports or .boundaries or .python
enforceable(m) ==
    m.disallow # {} \/ m.prefer # {} \/ m.boundaries # {} \/ m.python # {}

\* the whole tool: the directory afterwards and the response
create(dir, payload) ==
    IF payload.title_empty \/ ~valid_adr_id(format_adr_id(next_adr_num(dir)))
    THEN \* ValidationError of ADRFrontMatter: the outer except
         [dir |-> dir,
          response |-> [op |-> "adr_create", success |-> FALSE, error |-> "validation"]]
    ELSE LET new_id == id_num(format_adr_id(next_adr_num(dir)))
             adr == NewAdr(payload)
         IN [dir |-> [k \in DOMAIN dir \cup {new_id} |->
                         IF k = new_id THEN adr ELSE dir[k]],
             response |-> [op |-> "adr_create",
                           success |-> TRUE,
                           id |-> new_id,
                           status |-> "proposed",
                           policy_detected |-> enforceable(extract_policy(AsRecord(adr))),
                           policy_warnings |-> policy_validation(payload, adr)]]

adr_create(payload) ==
    /\ clock < MaxTime
    /\ Cardinality(DOMAIN adrs) < MaxAdrs
    /\ adrs' = create(adrs, payload).dir
    /\ result' = create(adrs, payload).response
    /\ clock' = clock + 1
    /\ UNCHANGED <<locks, extractVars, guardVars>>

(***************************************************************************)
(* mcp/server.py: adr_approve                                              *)
(***************************************************************************)
\* "Update superseded ADRs": each listed ADR that exists is re-read, marked
\* superseded by adr_id and written back; writing a read-only file raises
RECURSIVE update_superseded(_, _, _, _)
update_superseded(dir, ids, adr_id, updated) ==
    IF ids = <<>>
    THEN [dir |-> dir, raised |-> FALSE, updated |-> updated]
    ELSE IF ~find_adr(dir, Head(ids))
    THEN update_superseded(dir, Tail(ids), adr_id, updated)
    ELSE IF dir[Head(ids)].readonly
    THEN [dir |-> dir, raised |-> TRUE, updated |-> updated]
    ELSE update_superseded(
            [dir EXCEPT ![Head(ids)].status = "superseded",
                        ![Head(ids)].superseded_by = <<adr_id>>],
            Tail(ids), adr_id, Append(updated, Head(ids)))

\* immutability_info of the response
immutability_info(lockres) ==
    IF lockres.raised
    THEN [locked |-> FALSE, fallback |-> "ADR approved but not locked"]
    ELSE [locked |-> TRUE,
          digest |-> lockres.lock.digest,
          locked_at |-> lockres.lock.locked_at,
          is_readonly |-> lockres.lock.is_readonly]

approve_error(adr_id, error) ==
    [op |-> "adr_approve", success |-> FALSE, adr_id |-> adr_id, error |-> error]

\* the whole tool: directory, lock store and response afterwards
approve(dir, store, adr_id, supersede_ids, make_readonly, now, io) ==
    IF ~find_adr(dir, adr_id)
    THEN [dir |-> dir, store |-> store, response |-> approve_error(adr_id, "not_found")]
    ELSE IF dir[adr_id].status = "accepted"
    THEN [dir |-> dir, store |-> store,
          response |-> approve_error(adr_id, "already_accepted")]
    ELSE IF ~validate_adr_file(adr_id, dir[adr_id]).is_valid
    THEN [dir |-> dir, store |-> store,
          response |-> approve_error(adr_id, "validation_failed")]
    ELSE LET target_adr ==
                 [dir[adr_id] EXCEPT
                     !.status = "accepted",
                     !.supersedes = IF supersede_ids # <<>> THEN supersede_ids ELSE @]
             sup == update_superseded(dir, supersede_ids, adr_id, <<>>)
         IN IF sup.raised \/ sup.dir[adr_id].readonly
            THEN \* PermissionError from write_text: the outer except
                 [dir |-> sup.dir, store |-> store,
                  response |-> approve_error(adr_id, "exception")]
            ELSE LET lockres == approve_adr(store, adr_id, target_adr,
                                            make_readonly, now, io)
                 IN [dir |-> [sup.dir EXCEPT
                                 ![adr_id] = [target_adr EXCEPT
                                                 !.readonly = lockres.readonly]],
                     store |-> lockres.store,
                     response |-> [op |-> "adr_approve",
                                   success |-> TRUE,
                                   adr_id |-> adr_id,
                                   new_status |-> "accepted",
                                   readonly_protection |-> make_readonly,
                                   superseded_adrs |-> sup.updated,
                                   immutability |-> immutability_info(lockres)]]

\* ids a caller may name: the ADRs of the directory and one that is missing
AdrIds == 1..(MaxAdrs + 1)

SupersedeLists == {<<>>} \cup {<<i>> : i \in AdrIds}

adr_approve(adr_id, supersede_ids, make_readonly, io) ==
    /\ clock < MaxTime
    /\ LET r == approve(adrs, locks, adr_id, supersede_ids, make_readonly, clock + 1, io)
       IN /\ adrs' = r.dir
          /\ locks' = r.store
          /\ result' = r.response
    /\ clock' = clock + 1
    /\ UNCHANGED <<extractVars, guardVars>>

(***************************************************************************)
(* mcp/server.py: adr_supersede                                            *)
(***************************************************************************)
supersede_error(old_id, error) ==
    [op |-> "adr_supersede", success |-> FALSE, old_id |-> old_id, error |-> error]

supersede(dir, old_id, payload) ==
    IF ~find_adr(dir, old_id)
    THEN [dir |-> dir, response |-> supersede_error(old_id, "not_found")]
    ELSE LET created == create(dir, payload)
         IN IF ~created.response.success
            THEN [dir |-> dir, response |-> created.response]
            ELSE LET new_id == created.response.id
                     \* the new ADR is re-read and written with its link
                     linked == [created.dir EXCEPT ![new_id].supersedes = <<old_id>>]
                 IN IF dir[old_id].readonly
                    THEN \* PermissionError writing the old ADR
                         [dir |-> linked,
                          response |-> supersede_error(old_id, "exception")]
                    ELSE [dir |-> [linked EXCEPT
                                      ![old_id] = [dir[old_id] EXCEPT
                                                      !.status = "superseded",
                                                      !.superseded_by = <<new_id>>]],
                          response |-> [op |-> "adr_supersede",
                                        success |-> TRUE,
                                        new_id |-> new_id,
                                        old_id |-> old_id,
                                        status |-> "proposed"]]

adr_supersede(old_id, payload) ==
    /\ clock < MaxTime
    /\ next_adr_num(adrs) <= MaxAdrs
    /\ adrs' = supersede(adrs, old_id, payload).dir
    /\ result' = supersede(adrs, old_id, payload).response
    /\ clock' = clock + 1
    /\ UNCHANGED <<locks, extractVars, guardVars>>

(***************************************************************************)
(* mcp/server.py: adr_validate                                             *)
(***************************************************************************)
\* request.id names one ADR, NoId validates the whole directory
validate(dir, request_id) ==
    IF request_id # NoId /\ ~find_adr(dir, request_id)
    THEN [op |-> "adr_validate", success |-> FALSE, error |-> "not_found"]
    ELSE LET ids == IF request_id # NoId THEN {request_id} ELSE DOMAIN dir
             accepted == {i \in ids : dir[i].status = "accepted"}
             with_policies == {i \in accepted : has_extractable_policy(AsRecord(dir[i]))}
             ready == {i \in with_policies : enforceable(extract_policy(AsRecord(dir[i])))}
             total_errors ==
                 Cardinality({<<i, e>> \in ids \X
                     {"superseded_requires_superseded_by", "no_self_reference"} :
                     \E x \in validate_adr_file(i, dir[i]).issues :
                         x.level = "error" /\ x.rule = e})
         IN [op |-> "adr_validate",
             success |-> TRUE,
             request_id |-> request_id,
             valid_adrs |-> Cardinality({i \in ids : validate_adr_file(i, dir[i]).is_valid}),
             is_valid |-> total_errors = 0,
             adrs_with_policies |-> Cardinality(with_policies),
             accepted_without_policies |-> Cardinality(accepted \ with_policies),
             enforcement_ready |-> Cardinality(ready),
             policy_guidance |-> Cardinality(accepted \ with_policies) > 0]

adr_validate(request_id) ==
    /\ result' = validate(adrs, request_id)
    /\ UNCHANGED <<adrs, locks, clock, extractVars, guardVars>>

(***************************************************************************)
(* Tamper check of one ADR, and the edits an author makes to a file.       *)
(***************************************************************************)
\* variant: a detected mismatch is repaired by storing the actual digest
Verify_relocks(id) ==
    /\ find_adr(adrs, id)
    /\ result' = [op |-> "verify", adr_id |-> id,
                  has_lock |-> verify(adrs, locks, id).has_lock,
                  tampered |-> verify(adrs, locks, id).tampered,
                  expected_digest |-> verify(adrs, locks, id).expected_digest,
                  actual_digest |-> verify(adrs, locks, id).actual_digest]
    /\ locks' = IF verify(adrs, locks, id).tampered
                THEN [locks EXCEPT ![id].digest = verify(adrs, locks, id).actual_digest]
                ELSE locks
    /\ UNCHANGED <<adrs, clock, extractVars, guardVars>>

Verify(id) ==
    /\ find_adr(adrs, id)
    /\ result' = [op |-> "verify", adr_id |-> id,
                  has_lock |-> verify(adrs, locks, id).has_lock,
                  tampered |-> verify(adrs, locks, id).tampered,
                  expected_digest |-> verify(adrs, locks, id).expected_digest,
                  actual_digest |-> verify(adrs, locks, id).actual_digest]
    /\ UNCHANGED <<adrs, locks, clock, extractVars, guardVars>>

\* an author rewrites the body of an ADR file (not possible while it is
\* read-only)
EditBody(id, body) ==
    /\ find_adr(adrs, id)
    /\ ~adrs[id].readonly
    /\ body # adrs[id].content
    /\ adrs' = [adrs EXCEPT ![id].content = body]
    /\ UNCHANGED <<locks, clock, result, extractVars, guardVars>>

(***************************************************************************)
(* Spec: the ADR life cycle through the MCP tools.                         *)
(***************************************************************************)
IdleExtract ==
    /\ record = NoRecord
    /\ extraction = NoExtraction

Init ==
    /\ adrs = <<>>
    /\ locks = <<>>
    /\ clock = 0
    /\ result = NoResult
    /\ IdleExtract
    /\ IdleGuard

Next ==
    \/ \E payload \in Payloads : adr_create(payload)
    \/ \E adr_id \in AdrIds, supersede_ids \in SupersedeLists, make_readonly \in BOOLEAN :
          \E io \in IoOutcomesFor(make_readonly) :
            adr_approve(adr_id, supersede_ids, make_readonly, io)
    \/ \E old_id \in AdrIds, payload \in Payloads : adr_supersede(old_id, payload)
    \/ \E request_id \in AdrIds \cup {NoId} : adr_validate(request_id)
    \/ \E id \in AdrIds : Verify(id)
    \/ \E id \in AdrIds, body \in Bodies : EditBody(id, body)

Spec == Init /\ [][Next]_vars

(***************************************************************************)
(* SpecIds: adr_create on directories whose ADR numbers are anywhere in    *)
(* the four-digit range.                                                   *)
(***************************************************************************)
\* ADR numbers found in the directory at the start
IdNums == {1, 7, 9998, 9999}

\* an ADR file as adr_create writes it for a plain payload
PlainAdr ==
    NewAdr([title_empty |-> FALSE, status |-> "proposed", policy |-> NoPolicy,
            content |-> <<>>])

IdDirs == {[i \in S |-> PlainAdr] : S \in {T \in SUBSET IdNums : Cardinality(T) <= 1}}

InitIds ==
    /\ adrs \in IdDirs
    /\ locks = <<>>
    /\ clock = 0
    /\ result = NoResult
    /\ IdleExtract
    /\ IdleGuard

NextIds == \E payload \in Payloads : adr_create(payload)

SpecIds == InitIds /\ [][NextIds]_vars

(***************************************************************************)
(* Semantic Index: build and search.                                       *)
(***************************************************************************)
\* default number of results of a search
SearchK == 5

MinOf(S) == CHOOSE x \in S : \A y \in S : x <= y

\* the decision ids in ascending order
RECURSIVE SortedIds(_)
SortedIds(S) == IF S = {} THEN <<>> ELSE <<MinOf(S)>> \o SortedIds(S \ {MinOf(S)})

\* chunking: one chunk for the title, then the body
chunk_adr(i, adr) ==
    <<[decision_id |-> i, chunk_type |-> "title", text |-> <<"title">>],
      [decision_id |-> i, chunk_type |-> "body", text |-> adr.content]>>

\* content hash per decision
content_hash(adr) == <<"hash", adr.status, adr.policy, adr.content>>

\* the chunks the index already holds for decision i
kept_chunks(idx, i) == SelectSeq(idx.chunks, LAMBDA c : c.decision_id = i)

\* a decision whose hash is unchanged since the last build keeps its
\* chunks, any other is chunked anew; force_rebuild recomputes everything
RECURSIVE build_chunks(_, _, _, _)
build_chunks(idx, dir, ids, force_rebuild) ==
    IF ids = <<>>
    THEN <<>>
    ELSE LET i == Head(ids)
             unchanged == /\ ~force_rebuild
                          /\ i \in DOMAIN idx.hashes
                          /\ idx.hashes[i] = content_hash(dir[i])
         IN (IF unchanged THEN kept_chunks(idx, i) ELSE chunk_adr(i, dir[i]))
                \o build_chunks(idx, dir, Tail(ids), force_rebuild)

\* variant: the chunks of a build are appended to the ones already stored
build_index_appends(idx, dir, force_rebuild) ==
    [built |-> TRUE,
     hashes |-> [i \in DOMAIN dir |-> content_hash(dir[i])],
     chunks |-> idx.chunks \o build_chunks(idx, dir, SortedIds(DOMAIN dir), force_rebuild),
     status_by_id |-> [i \in DOMAIN dir |-> dir[i].status]]

\* build: one consistent snapshot of the decision set; chunks ordered by
\* decision id, then chunk order
build_index(idx, dir, force_rebuild) ==
    [built |-> TRUE,
     hashes |-> [i \in DOMAIN dir |-> content_hash(dir[i])],
     chunks |-> build_chunks(idx, dir, SortedIds(DOMAIN dir), force_rebuild),
     status_by_id |-> [i \in DOMAIN dir |-> dir[i].status]]

\* stats of a build
index_stats(idx) ==
    [total_chunks |-> Len(idx.chunks), total_adrs |-> Cardinality(DOMAIN idx.hashes)]

\* the decisions a search may return: those of the index whose status is
\* in filter_status; the embedding scores decide which k of them are kept
search_candidates(idx, filter_status) ==
    {i \in DOMAIN idx.status_by_id : idx.status_by_id[i] \in filter_status}

search_results(idx, filter_status, k) ==
    IF Cardinality(search_candidates(idx, filter_status)) <= k
    THEN {search_candidates(idx, filter_status)}
    ELSE {S \in SUBSET search_candidates(idx, filter_status) : Cardinality(S) = k}

\* a search request's filter_status: a list of statuses, or none given
NoFilter == [given |-> FALSE, statuses |-> {}]

\* the rankings the similarity scores can produce: every order of the
\* indexed decisions
Rankings(idx) ==
    LET ids == DOMAIN idx.status_by_id
        n == Cardinality(ids)
    IN {r \in [1..n -> ids] : \A a, b \in 1..n : a # b => r[a] # r[b]}

Min2(a, b) == IF a <= b THEN a ELSE b

\* search: rank by score, keep the decisions whose status is in
\* filter_status, return the first k
search(idx, ranking, k, filter_status) ==
    LET kept == SelectSeq(ranking,
                          LAMBDA i : ~filter_status.given
                                     \/ idx.status_by_id[i] \in filter_status.statuses)
    IN SubSeq(kept, 1, Min2(k, Len(kept)))

(***************************************************************************)
(* mcp/server.py: adr_semantic_match                                       *)
(***************************************************************************)
\* request.k: a number, SearchK when the request leaves it out
RequestKs == {0, 1, 2, SearchK}

\* request.filter_status: none, or a list of statuses (possibly empty)
RequestFilters ==
    {NoFilter} \cup [given : {TRUE}, statuses : SUBSET {"proposed", "accepted"}]

\* the ranking stands for the similarity scores of the query
adr_semantic_match(request_k, request_filter) ==
    /\ \E ranking \in Rankings(index) :
       LET \* k=request.k or 5
           k == IF request_k # 0 THEN request_k ELSE SearchK
           \* set(request.filter_status) if request.filter_status else None
           filter_status == IF request_filter.given /\ request_filter.statuses # {}
                            THEN request_filter ELSE NoFilter
           matches == search(index, ranking, k, filter_status)
       IN result' = [op |-> "adr_semantic_match",
                     success |-> TRUE,
                     k |-> request_k,
                     filter_status |-> request_filter,
                     ranking |-> ranking,
                     matches |-> [j \in 1..Len(matches) |->
                                    [adr_id |-> matches[j],
                                     status |-> index.status_by_id[matches[j]]]],
                     total_found |-> Len(matches)]
    /\ UNCHANGED <<adrs, locks, clock, index, report, extractVars>>

(***************************************************************************)
(* Guard System: analyze a diff against the relevant decisions.            *)
(***************************************************************************)
GuardImports == {"flask", "fastapi"}
GuardFiles == {"app.py", "util.py"}

\* one hunk of a diff: the file, the imports its added lines bring in (lines
\* that are only removed add none), and whether the hunk can be parsed
Hunks ==
    [file : GuardFiles, added : {{}} \cup {{x} : x \in GuardImports},
     wellformed : BOOLEAN]

RECURSIVE SeqsUpTo(_, _)
SeqsUpTo(S, n) ==
    IF n = 0 THEN {<<>>}
    ELSE SeqsUpTo(S, n - 1) \cup {Append(q, x) : q \in SeqsUpTo(S, n - 1), x \in S}

Diffs == SeqsUpTo(Hunks, MaxHunks)

\* variant: one unparseable hunk makes the parser give up on the diff
parsed_hunks_aborts(diff) ==
    IF \E j \in 1..Len(diff) : ~diff[j].wellformed
    THEN {}
    ELSE {diff[i] : i \in 1..Len(diff)}

\* diff parsing: malformed hunks are skipped, the rest is grouped by file
parsed_hunks(diff) == {diff[i] : i \in {j \in 1..Len(diff) : diff[j].wellformed}}
skipped_hunks(diff) == {i \in 1..Len(diff) : ~diff[i].wellformed}
analyzed_files(diff) == {h.file : h \in parsed_hunks(diff)}
new_imports(diff, f) == UNION {h.added : h \in {g \in parsed_hunks(diff) : g.file = f}}

\* rule evaluation of one relevant decision against one analyzed file: each
\* new import the decision disallows is an error
check_file_violations(diff, f, id, policy) ==
    {[kind |-> "disallowed_import", severity |-> "error", file |-> f,
      import |-> x, decision_id |-> id,
      suggested_fix |-> IF policy.prefer # {} THEN "use_preferred" ELSE "remove_or_justify"]
        : x \in new_imports(diff, f) \cap policy.disallow}

\* a skipped hunk surfaces in the report as a warning-severity entry
skipped_hunk_notices(diff) ==
    {[kind |-> "skipped_hunk", severity |-> "warning", file |-> diff[i].file,
      import |-> "", decision_id |-> NoId, suggested_fix |-> "none"]
        : i \in skipped_hunks(diff)}

\* analyze_diff: the report for this diff given the decisions retrieved
analyze_diff(dir, relevant, diff) ==
    LET violations ==
            UNION {check_file_violations(diff, f, id, extract_policy(AsRecord(dir[id])))
                      : <<f, id>> \in analyzed_files(diff) \X relevant}
                \cup skipped_hunk_notices(diff)
    IN [violations |-> violations,
        analyzed_files |-> analyzed_files(diff),
        relevant_adrs |-> relevant,
        has_errors |-> \E v \in violations : v.severity = "error",
        has_warnings |-> \E v \in violations : v.severity = "warning"]

(***************************************************************************)
(* mcp/server.py: adr_semantic_index and adr_guard                         *)
(***************************************************************************)
adr_semantic_index(force_rebuild) ==
    /\ index' = build_index(index, adrs, force_rebuild)
    /\ result' = [op |-> "adr_semantic_index",
                  success |-> TRUE,
                  semantic_index |-> index_stats(index')]
    /\ UNCHANGED <<report, adrs, locks, clock, extractVars>>

\* variant: the violation's adr_id is filled from the wrong attribute
guard_response_wrong_adr(diff, build, res) ==
    [op |-> "adr_guard",
     success |-> TRUE,
     diff |-> diff,
     build_index |-> build,
     violations |-> {[type |-> v.kind, severity |-> v.severity, file |-> v.file,
                      import |-> v.import, adr_id |-> NoId,
                      suggested_fix |-> v.suggested_fix] : v \in res.violations},
     analyzed_files |-> res.analyzed_files,
     relevant_adrs |-> res.relevant_adrs,
     has_errors |-> res.has_errors,
     has_warnings |-> res.has_warnings,
     total_violations |-> Cardinality(res.violations)]

\* the response: the violations and the relevant ADRs, field by field
guard_response(diff, build, res) ==
    [op |-> "adr_guard",
     success |-> TRUE,
     diff |-> diff,
     build_index |-> build,
     violations |-> {[type |-> v.kind, severity |-> v.severity, file |-> v.file,
                      import |-> v.import, adr_id |-> v.decision_id,
                      suggested_fix |-> v.suggested_fix] : v \in res.violations},
     analyzed_files |-> res.analyzed_files,
     relevant_adrs |-> res.relevant_adrs,
     has_errors |-> res.has_errors,
     has_warnings |-> res.has_warnings,
     total_violations |-> Cardinality(res.violations)]

adr_guard(diff, build) ==
    /\ report = NoReport
    /\ LET idx == IF build THEN build_index(index, adrs, FALSE) ELSE index
       IN \E relevant \in search_results(idx, {"accepted"}, SearchK) :
            /\ index' = idx
            /\ report' = guard_response(diff, build, analyze_diff(adrs, relevant, diff))
    /\ UNCHANGED <<lifecycleVars, extractVars>>

(***************************************************************************)
(* SpecGuard: one adr_guard call, before or after adr_semantic_index, over *)
(* a directory of proposed and accepted decisions.                         *)
(***************************************************************************)
GuardAdrs ==
    [status : {"proposed", "accepted"}, content : Bodies, policy : {NoPolicy},
     supersedes : {<<>>}, superseded_by : {<<>>}, readonly : {FALSE}]
    \cup [status : {"proposed", "accepted"}, content : {load_adr_template},
          policy : {FlaskPolicy},
          supersedes : {<<>>}, superseded_by : {<<>>}, readonly : {FALSE}]

GuardDirs == UNION {[1..n -> GuardAdrs] : n \in 0..MaxGuardAdrs}

InitGuard ==
    /\ adrs \in GuardDirs
    /\ locks = <<>>
    /\ clock = 0
    /\ result = NoResult
    /\ IdleExtract
    /\ IdleGuard

NextGuard ==
    \/ \E force_rebuild \in BOOLEAN : adr_semantic_index(force_rebuild)
    \/ \E diff \in Diffs, build \in BOOLEAN : adr_guard(diff, build)

SpecGuard == InitGuard /\ [][NextGuard]_vars

(***************************************************************************)
(* SpecIndex: building the semantic index and searching it, while the      *)
(* bodies of the decisions are edited.                                     *)
(***************************************************************************)
IndexAdrs ==
    [status : {"proposed", "accepted"}, content : Bodies, policy : {NoPolicy},
     supersedes : {<<>>}, superseded_by : {<<>>}, readonly : {FALSE}]

IndexDirs == UNION {[1..n -> IndexAdrs] : n \in 0..MaxIndexAdrs}

InitIndex ==
    /\ adrs \in IndexDirs
    /\ locks = <<>>
    /\ clock = 0
    /\ result = NoResult
    /\ IdleExtract
    /\ IdleGuard

NextIndex ==
    \/ \E force_rebuild \in BOOLEAN : adr_semantic_index(force_rebuild)
    \/ \E request_k \in RequestKs, request_filter \in RequestFilters :
          adr_semantic_match(request_k, request_filter)
    \/ \E id \in 1..MaxIndexAdrs, body \in Bodies : EditBody(id, body)

SpecIndex == InitIndex /\ [][NextIndex]_vars

(***************************************************************************)
(* SpecEslint: ESLintRuleExtractor.extract_from_adr (enforce/eslint.py)    *)
(* applied to one ADR.  Title and content are sequences of word tokens;    *)
(* the extractor lower-cases "title content" and runs its four patterns    *)
(* over it with re.findall.                                                *)
(***************************************************************************)
\* keys of library_mappings whose value differs from the key
library_mappings(name) ==
    CASE name = "react-query" -> "@tanstack/react-query"
      [] OTHER -> name

MappedLibraries ==
    {"react-query", "axios", "fetch", "lodash", "moment", "date-fns", "dayjs",
     "jquery", "underscore"}

skip_words ==
    {"the", "a", "an", "and", "or", "but", "in", "on", "at", "to", "for", "of",
     "with", "by"}

\* _normalize_library_name: the mapped name, None for a skip word or a name
\* shorter than two characters, else the lower-cased name
normalize_library_name(name) ==
    IF Lower(name) \in MappedLibraries THEN library_mappings(Lower(name))
    ELSE IF Lower(name) \in skip_words \/ Lower(name) \in ShortTokens THEN None
    ELSE Lower(name)

\* content = f"{title} {content}".lower()
eslint_content(adr) == [i \in 1..Len(adr.title \o adr.content) |->
                            Lower((adr.title \o adr.content)[i])]

\* pattern 1: (don't use | avoid | ban | deprecate[d]) X
SimpleBanAt(t, i) ==
    /\ i + 1 <= Len(t)
    /\ t[i] \in {"avoid", "ban", "deprecate", "deprecated"}

\* pattern 2: use Y instead of X, groups (Y, X)
UseInsteadOfAt(t, i) ==
    /\ i + 4 <= Len(t)
    /\ t[i] = "use"
    /\ t[i + 2] = "instead"
    /\ t[i + 3] = "of"

\* pattern 3: replace X with Y, groups (X, Y)
ReplaceAt(t, i) ==
    /\ i + 3 <= Len(t)
    /\ t[i] = "replace"
    /\ t[i + 2] = "with"

\* pattern 4: no longer use X
NoLongerUseAt(t, i) ==
    /\ i + 3 <= Len(t)
    /\ t[i] = "no"
    /\ t[i + 1] = "longer"
    /\ t[i + 2] = "use"

\* re.findall of a one-group pattern: the group of every match, left to right
simple_ban_matches(t) ==
    LET p1 == SortedIds({i \in 1..Len(t) : SimpleBanAt(t, i)})
    IN [k \in 1..Len(p1) |-> t[p1[k] + 1]]

no_longer_use_matches(t) ==
    LET p4 == SortedIds({i \in 1..Len(t) : NoLongerUseAt(t, i)})
    IN [k \in 1..Len(p4) |-> t[p4[k] + 3]]

\* re.findall of the two-group patterns: the tuple of groups of every match,
\* pattern 2 before pattern 3, each left to right
tuple_matches(t) ==
    LET p2 == SortedIds({i \in 1..Len(t) : UseInsteadOfAt(t, i)})
        p3 == SortedIds({i \in 1..Len(t) : ReplaceAt(t, i)})
    IN [k \in 1..Len(p2) |-> <<t[p2[k] + 1], t[p2[k] + 4]>>]
       \o [k \in 1..Len(p3) |-> <<t[p3[k] + 1], t[p3[k] + 3]>>]

\* rules["preferred_imports"][banned_lib] = preferred_lib
dict_put(d, key, value) ==
    [x \in DOMAIN d \cup {key} |-> IF x = key THEN value ELSE d[x]]

\* a match that is a tuple: preferred, banned = match, whichever pattern
\* produced it
RECURSIVE add_tuple_matches(_, _)
add_tuple_matches(rules, ms) ==
    IF ms = <<>> THEN rules
    ELSE LET preferred == Head(ms)[1]
             banned == Head(ms)[2]
             banned_lib == normalize_library_name(banned)
             preferred_lib == normalize_library_name(preferred)
         IN add_tuple_matches(
                IF banned_lib = None THEN rules
                ELSE [rules EXCEPT
                        !.banned_imports = Append(@, banned_lib),
                        !.preferred_imports =
                            IF preferred_lib = None THEN @
                            ELSE dict_put(@, banned_lib, preferred_lib)],
                Tail(ms))

\* a match that is a string: a simple ban
RECURSIVE add_simple_matches(_, _)
add_simple_matches(rules, ms) ==
    IF ms = <<>> THEN rules
    ELSE add_simple_matches(
             IF normalize_library_name(Head(ms)) = None THEN rules
             ELSE [rules EXCEPT
                     !.banned_imports = Append(@, normalize_library_name(Head(ms)))],
             Tail(ms))

NoRules == [banned_imports |-> <<>>, preferred_imports |-> <<>>, custom_rules |-> <<>>]

\* extract_from_adr: nothing for an ADR that is not accepted; else the
\* matches of pattern 1, of patterns 2 and 3, and of pattern 4, in this
\* order.  The prose alphabet has no frontend or backend words, so
\* custom_rules stays empty.
extract_from_adr(adr) ==
    IF adr.status # "accepted" THEN NoRules
    ELSE add_simple_matches(
             add_tuple_matches(
                 add_simple_matches(NoRules, simple_ban_matches(eslint_content(adr))),
                 tuple_matches(eslint_content(adr))),
             no_longer_use_matches(eslint_content(adr)))

EslintClauses ==
    {<<"use", ab[1], "instead", "of", ab[2]>> : ab \in SymbolPairs}
    \cup {<<"replace", ab[1], "with", ab[2]>> : ab \in SymbolPairs}
    \cup {<<"Avoid", a>> : a \in Symbols}
    \cup {<<"no", "longer", "use", a>> : a \in Symbols}

RECURSIVE EslintProsesOf(_)
EslintProsesOf(n) ==
    IF n = 0 THEN {<<>>}
    ELSE EslintProsesOf(n - 1) \cup {p \o c : p \in EslintProsesOf(n - 1), c \in EslintClauses}

EslintTitles == {<<"framework">>, <<"Avoid", "Django">>}

EslintRecords ==
    [title : EslintTitles, content : EslintProsesOf(MaxClauses),
     status : {"proposed", "accepted"}]

InitEslint ==
    /\ record \in EslintRecords
    /\ extraction = NoExtraction
    /\ IdleLifecycle
    /\ IdleGuard

ExtractEslintRules ==
    /\ ~extraction.done
    /\ extraction' = [done |-> TRUE, rules |-> extract_from_adr(record)]
    /\ UNCHANGED <<record, lifecycleVars, guardVars>>

NextEslint == ExtractEslintRules

SpecEslint == InitEslint /\ [][NextEslint]_vars

(***************************************************************************)
(* SpecCli: the validate and index commands of cli.py.  A command body     *)
(* ends by raising: typer.Exit(code) or an error; the handlers of its try  *)
(* statement decide the exit code.  A file of the directory is an ADR or   *)
(* does not parse.                                                         *)
(***************************************************************************)
Exit(code) == [class |-> "Exit", code |-> code]

\* an error raised by validation or by index generation
RaisedError == [class |-> "ValueError", code |-> NoId]

\* the classes an exception is an instance of: typer.Exit is
\* click.exceptions.Exit, a RuntimeError
exception_bases(class) ==
    CASE class = "Exit" -> {"Exit", "RuntimeError", "Exception"}
      [] class = "ValueError" -> {"ValueError", "Exception"}

isinstance(e, class) == class \in exception_bases(e.class)

\* ADRValidator.validate_file: a file that does not parse gives one
\* error-level issue, else validate_adr
validate_file(id, file) ==
    IF file.parse_error
    THEN [is_valid |-> FALSE,
          issues |-> {[level |-> "error", rule |-> "parse_error"]}]
    ELSE validate_adr_file(id, file)

\* ValidationResult.errors
errors(res) == {i \in res.issues : i.level = "error"}

RECURSIVE total_errors_of(_, _)
total_errors_of(dir, ids) ==
    IF ids = {} THEN 0
    ELSE LET i == CHOOSE x \in ids : TRUE
         IN Cardinality(errors(validate_file(i, dir[i]))) + total_errors_of(dir, ids \ {i})

\* the ADR files the validate command validates: with --id the file whose
\* front matter has this id (files that do not parse are passed over), else
\* every file of the directory
validated_ids(dir, adr_id) ==
    IF adr_id # NoId
    THEN {i \in DOMAIN dir : i = adr_id /\ ~dir[i].parse_error}
    ELSE DOMAIN dir

\* the try block of validate
validate_body(dir, adr_id, validation_raises) ==
    IF adr_id # NoId /\ validated_ids(dir, adr_id) = {} THEN Exit(3)
    ELSE IF validation_raises THEN RaisedError
    ELSE IF total_errors_of(dir, validated_ids(dir, adr_id)) > 0 THEN Exit(1)
    ELSE Exit(0)

\* variant: without the handler that re-raises typer.Exit
validate_command_catches_exit(dir, adr_id, validation_raises) ==
    LET raised == validate_body(dir, adr_id, validation_raises)
    IN IF isinstance(raised, "Exception") THEN Exit(3)
       ELSE raised

\* validate: except typer.Exit: raise; except Exception: exit code 3
validate_command(dir, adr_id, validation_raises) ==
    LET raised == validate_body(dir, adr_id, validation_raises)
    IN IF isinstance(raised, "Exit") THEN raised
       ELSE IF isinstance(raised, "Exception") THEN Exit(3)
       ELSE raised

\* the try block of index: the JSON index, the SQLite index if asked for,
\* then typer.Exit(code=0)
index_body(json_raises, sqlite, sqlite_raises) ==
    IF json_raises THEN RaisedError
    ELSE IF sqlite /\ sqlite_raises THEN RaisedError
    ELSE Exit(0)

\* index: its only handler is except Exception: exit code 3
index_command(json_raises, sqlite, sqlite_raises) ==
    LET raised == index_body(json_raises, sqlite, sqlite_raises)
    IN IF isinstance(raised, "Exception") THEN Exit(3)
       ELSE raised

CliValidate(adr_id, validation_raises) ==
    /\ result' = [op |-> "validate",
                  adr_id |-> adr_id,
                  validation_raises |-> validation_raises,
                  exit_code |-> validate_command(adrs, adr_id, validation_raises).code]
    /\ UNCHANGED <<adrs, locks, clock, extractVars, guardVars>>

CliIndex(json_raises, sqlite, sqlite_raises) ==
    /\ result' = [op |-> "index",
                  generation_raised |-> json_raises \/ (sqlite /\ sqlite_raises),
                  sqlite |-> sqlite,
                  exit_code |-> index_command(json_raises, sqlite, sqlite_raises).code]
    /\ UNCHANGED <<adrs, locks, clock, extractVars, guardVars>>

CliFiles ==
    [status : {"proposed", "accepted", "superseded"}, content : {load_adr_template},
     policy : {NoPolicy}, supersedes : {<<>>}, superseded_by : {<<>>, <<1>>},
     readonly : {FALSE}, parse_error : BOOLEAN]

CliDirs == UNION {[1..n -> CliFiles] : n \in 0..MaxAdrs}

InitCli ==
    /\ adrs \in CliDirs
    /\ locks = <<>>
    /\ clock = 0
    /\ result = NoResult
    /\ IdleExtract
    /\ IdleGuard

NextCli ==
    \/ \E adr_id \in AdrIds \cup {NoId}, validation_raises \in BOOLEAN :
          CliValidate(adr_id, validation_raises)
    \/ \E json_raises \in BOOLEAN, sqlite \in BOOLEAN, sqlite_raises \in BOOLEAN :
          CliIndex(json_raises, sqlite, sqlite_raises)

SpecCli == InitCli /\ [][NextCli]_vars

(***************************************************************************)
(* SpecWorkflow: a workflow built on BaseWorkflow (workflows/base.py), run *)
(* as ConcreteWorkflow.execute of the unit tests runs it: the steps in     *)
(* order, each through _execute_step, then _complete_workflow.  A step     *)
(* function returns, or raises an exception.                               *)
(***************************************************************************)
StepBehaviours == {"returns", "raises_exception", "raises_workflow_error"}

WorkflowInputs == UNION {[1..n -> StepBehaviours] : n \in 0..MaxSteps}

\* the workflow after construction: result.success False, status FAILED
NewWorkflow ==
    [op |-> "workflow", success |-> FALSE, status |-> "failed", steps |-> <<>>,
     executed |-> <<>>, pc |-> 1, raised |-> FALSE, completed |-> FALSE]

\* variant: a failing step is recorded and the workflow goes on
execute_step_goes_on(wf, i, behaviour) ==
    IF behaviour = "returns"
    THEN [wf EXCEPT !.steps = Append(@, [name |-> i, status |-> "success"]),
                    !.executed = Append(@, i),
                    !.pc = i + 1]
    ELSE [wf EXCEPT !.steps = Append(@, [name |-> i, status |-> "failed"]),
                    !.pc = i + 1]

\* _execute_step: run the step function; a SUCCESS step when it returns, a
\* FAILED step and a WorkflowError when it raises
execute_step(wf, i, behaviour) ==
    IF behaviour = "returns"
    THEN [wf EXCEPT !.steps = Append(@, [name |-> i, status |-> "success"]),
                    !.executed = Append(@, i),
                    !.pc = i + 1]
    ELSE [wf EXCEPT !.steps = Append(@, [name |-> i, status |-> "failed"]),
                    !.raised = TRUE]

\* _complete_workflow(success, message)
complete_workflow(wf, success) ==
    [wf EXCEPT !.success = success,
               !.status = IF success THEN "success" ELSE "failed",
               !.completed = TRUE]

\* the loop of execute: the next step
ExecuteStep ==
    /\ ~result.completed
    /\ ~result.raised
    /\ result.pc <= Len(record)
    /\ result' = execute_step(result, result.pc, record[result.pc])
    /\ UNCHANGED <<record, extraction, adrs, locks, clock, guardVars>>

\* the end of execute: after the last step, or in the handler of
\* WorkflowError
CompleteWorkflow ==
    /\ ~result.completed
    /\ result.raised \/ result.pc > Len(record)
    /\ result' = complete_workflow(result, ~result.raised)
    /\ UNCHANGED <<record, extraction, adrs, locks, clock, guardVars>>

InitWorkflow ==
    /\ record \in WorkflowInputs
    /\ result = NewWorkflow
    /\ extraction = NoExtraction
    /\ adrs = <<>>
    /\ locks = <<>>
    /\ clock = 0
    /\ IdleGuard

NextWorkflow == ExecuteStep \/ CompleteWorkflow

SpecWorkflow == InitWorkflow /\ [][NextWorkflow]_vars

(***************************************************************************)
(* SpecMiddleware: StringifiedParameterFixMiddleware.on_call_tool          *)
(* (mcp/middleware.py) on one call of adr_query_related(topic: str,        *)
(* tags: Optional[List[str]]).  A value is a record with its type; a       *)
(* string is its sequence of characters, and json.loads is computed on     *)
(* the characters.                                                         *)
(***************************************************************************)
JsonChars == {"{", "}", "[", "]", "1", " "}

String(chars) == [type |-> "str", chars |-> chars]
List(items) == [type |-> "list", items |-> items]
Dict(items) == [type |-> "dict", items |-> items]
Number(n) == [type |-> "int", n |-> n]

\* str.strip()
RECURSIVE lstrip(_)
lstrip(s) == IF s # <<>> /\ Head(s) = " " THEN lstrip(Tail(s)) ELSE s

RECURSIVE rstrip(_)
rstrip(s) == IF s # <<>> /\ s[Len(s)] = " " THEN rstrip(SubSeq(s, 1, Len(s) - 1)) ELSE s

strip(s) == rstrip(lstrip(s))

\* _is_stringified_json
is_stringified_json(value) ==
    /\ value.type = "str"
    /\ strip(value.chars) # <<>>
    /\ \/ Head(strip(value.chars)) = "{" /\ strip(value.chars)[Len(strip(value.chars))] = "}"
       \/ Head(strip(value.chars)) = "[" /\ strip(value.chars)[Len(strip(value.chars))] = "]"

\* json.loads on these characters: whitespace, the empty object, an array of
\* at most one value (there is no comma), a number written with the digit 1
RECURSIVE skip_ws(_, _)
skip_ws(s, i) == IF i <= Len(s) /\ s[i] = " " THEN skip_ws(s, i + 1) ELSE i

RECURSIVE digits_end(_, _)
digits_end(s, i) == IF i <= Len(s) /\ s[i] = "1" THEN digits_end(s, i + 1) ELSE i

RECURSIVE ones(_)
ones(n) == IF n = 0 THEN 0 ELSE 10 * ones(n - 1) + 1

JSONDecodeError == [ok |-> FALSE, next |-> 0, value |-> Number(0)]

Parsed(next, value) == [ok |-> TRUE, next |-> next, value |-> value]

RECURSIVE parse_value(_, _)
parse_value(s, i) ==
    IF i > Len(s) THEN JSONDecodeError
    ELSE CASE s[i] = "{" ->
                 IF skip_ws(s, i + 1) <= Len(s) /\ s[skip_ws(s, i + 1)] = "}"
                 THEN Parsed(skip_ws(s, i + 1) + 1, Dict(<<>>))
                 ELSE JSONDecodeError
           [] s[i] = "[" ->
                 LET j == skip_ws(s, i + 1)
                 IN IF j <= Len(s) /\ s[j] = "]" THEN Parsed(j + 1, List(<<>>))
                    ELSE LET r == parse_value(s, j)
                             k == skip_ws(s, r.next)
                         IN IF r.ok /\ k <= Len(s) /\ s[k] = "]"
                            THEN Parsed(k + 1, List(<<r.value>>))
                            ELSE JSONDecodeError
           [] s[i] = "1" -> Parsed(digits_end(s, i), Number(ones(digits_end(s, i) - i)))
           [] OTHER -> JSONDecodeError

json_loads(s) ==
    LET r == parse_value(s, skip_ws(s, 1))
    IN IF r.ok /\ skip_ws(s, r.next) > Len(s) THEN r ELSE JSONDecodeError

\* the loop over arguments.items(): a value that looks like JSON and parses
\* is replaced by the parsed value, every other value is left
fixed_arguments(arguments) ==
    [key \in DOMAIN arguments |->
        IF is_stringified_json(arguments[key]) /\ json_loads(arguments[key].chars).ok
        THEN json_loads(arguments[key].chars).value
        ELSE arguments[key]]

\* on_call_tool: what call_next receives, and how often it is called
on_call_tool(message) ==
    IF ~message.has_arguments THEN [forwarded |-> message, calls |-> 1]
    ELSE IF message.arguments.type # "dict" THEN [forwarded |-> message, calls |-> 1]
    ELSE [forwarded |-> [message EXCEPT !.arguments =
                            Dict(fixed_arguments(message.arguments.items))],
          calls |-> 1]

RECURSIVE StringsOf(_)
StringsOf(n) ==
    IF n = 0 THEN {<<>>}
    ELSE StringsOf(n - 1) \cup {Append(s, c) : s \in StringsOf(n - 1), c \in JsonChars}

\* topic is a string; tags is a list, or the string a client sends in its
\* place
TopicValues == {String(s) : s \in StringsOf(MaxStrLen)}

TagsValues ==
    {List(<<>>), List(<<Number(1)>>), String(<<"[", "]">>), String(<<"[", "1", "]">>),
     String(<<"[", "[", "]">>)}

ToolCalls ==
    {[name |-> "adr_query_related", has_arguments |-> TRUE,
      arguments |-> Dict([key \in {"topic", "tags"} |->
                              IF key = "topic" THEN topic ELSE tags])] :
        topic \in TopicValues, tags \in TagsValues}
    \cup {[name |-> "adr_query_related", has_arguments |-> TRUE,
           arguments |-> Dict([key \in {"topic"} |-> topic])] : topic \in TopicValues}
    \cup {[name |-> "adr_query_related", has_arguments |-> TRUE, arguments |-> List(<<>>)],
          [name |-> "adr_query_related", has_arguments |-> FALSE, arguments |-> List(<<>>)]}

OnCallTool ==
    /\ result = NoResult
    /\ result' = [op |-> "on_call_tool",
                  forwarded |-> on_call_tool(record).forwarded,
                  calls |-> on_call_tool(record).calls]
    /\ UNCHANGED <<record, extraction, adrs, locks, clock, guardVars>>

InitMiddleware ==
    /\ record \in ToolCalls
    /\ result = NoResult
    /\ extraction = NoExtraction
    /\ adrs = <<>>
    /\ locks = <<>>
    /\ clock = 0
    /\ IdleGuard

NextMiddleware == OnCallTool

SpecMiddleware == InitMiddleware /\ [][NextMiddleware]_vars

(***************************************************************************)
(* SpecConcurrent: adr_create calls running at the same time on one ADR    *)
(* directory.  A call first scans the directory for the highest id         *)
(* (server.py 157-171), later writes its file (server.py 201-204); nothing *)
(* is locked in between.  The directory maps a file name, made of the id   *)
(* and the title, to the ADR written under it.                             *)
(***************************************************************************)
Creators == 1..MaxCreators

CreateTitles == {"use-flask", "use-django"}

\* filename = f"{new_id}-{payload.title.lower().replace(' ', '-')}.md"
file_name(new_id, title) == <<new_id, title>>

\* the id in the front matter of the file of this name
file_id(name) == name[1]

\* max_num over the files found, plus one
next_num_of_files(dir) ==
    IF DOMAIN dir = {} THEN 1 ELSE Max({file_id(name) : name \in DOMAIN dir}) + 1

TitledPayload ==
    [title_empty |-> FALSE, status |-> "proposed", policy |-> NoPolicy, content |-> <<>>]

\* file_path.write_text: a file of this name is created or replaced
write_text(dir, name, adr) ==
    [n \in DOMAIN dir \cup {name} |-> IF n = name THEN adr ELSE dir[n]]

\* the call of creator p has read the directory and chosen its id
ScanDirectory(p) ==
    /\ record[p].pc = "scan"
    /\ record' = [record EXCEPT ![p].pc = "write",
                                ![p].new_id = next_num_of_files(adrs)]
    /\ UNCHANGED <<adrs, locks, clock, result, extraction, guardVars>>

\* the call of creator p writes its file and answers
WriteFile(p) ==
    /\ record[p].pc = "write"
    /\ adrs' = write_text(adrs, file_name(record[p].new_id, record[p].title),
                          NewAdr(TitledPayload))
    /\ result' = [result EXCEPT ![p] = [op |-> "adr_create", success |-> TRUE,
                                        id |-> record[p].new_id, status |-> "proposed"]]
    /\ record' = [record EXCEPT ![p].pc = "done"]
    /\ UNCHANGED <<locks, clock, extraction, guardVars>>

\* directories to start from: empty, or ADR-0001 to ADR-000n
ConcurrentDirs ==
    {[name \in {file_name(i, "use-flask") : i \in 1..n} |-> NewAdr(TitledPayload)] :
        n \in 0..MaxAdrs}

InitConcurrent ==
    /\ adrs \in ConcurrentDirs
    /\ record \in [Creators -> [pc : {"scan"}, title : CreateTitles, new_id : {NoId}]]
    /\ result = [p \in Creators |-> NoResult]
    /\ extraction = NoExtraction
    /\ locks = <<>>
    /\ clock = 0
    /\ IdleGuard

NextConcurrent ==
    \/ \E p \in Creators : ScanDirectory(p)
    \/ \E p \in Creators : WriteFile(p)

SpecConcurrent == InitConcurrent /\ [][NextConcurrent]_vars

(***************************************************************************)
(* Properties of the approval and creation tools (Spec).                   *)
(***************************************************************************)
\* a step in which adr_approve answered
ApproveAnswered == result' # result /\ result'.op = "adr_approve"

\* a step in which adr_create answered
CreateAnswered == result' # result /\ result'.op = "adr_create"

\* the last tool call approved ADR id
LastApproved(id) ==
    /\ result.op = "adr_approve"
    /\ result.success
    /\ result.adr_id = id

\* C1: approve(D) followed by verify(D) with no edit in between reports
\* tampered = false; changing D's body after approve(D) makes the next
\* verify(D) report tampered = true with differing digests.  The first
\* conjunct verifies right after a successful approval; the second changes
\* the still-approved body of the ADR approved last and verifies.
C1_ApproveThenVerify ==
    [][/\ (ApproveAnswered /\ result'.success)
            => ~verify(adrs', locks', result'.adr_id).tampered
       /\ \A id \in DOMAIN adrs :
            (/\ LastApproved(id)
             /\ ~verify(adrs, locks, id).tampered
             /\ adrs'[id].content # adrs[id].content)
            => /\ verify(adrs', locks', id).tampered
               /\ verify(adrs', locks', id).expected_digest
                    # verify(adrs', locks', id).actual_digest]_vars

\* C6: creating a decision from which no policy can be extracted succeeds,
\* writes the ADR file, and the response carries at least one policy warning.
C6_CreateWithoutPolicyWarns ==
    [][(/\ CreateAnswered
        /\ result'.success
        /\ ~has_extractable_policy(AsRecord(adrs'[result'.id])))
       => /\ result'.id \in DOMAIN adrs'
          /\ Len(result'.policy_warnings) >= 1]_vars

\* C7: approving a decision that is already approved (accepted, with a Lock
\* Record) does not return an error; it overwrites the Lock Record with a
\* new digest and timestamp.
C7_ReapproveOverwritesLock ==
    [][\A id \in DOMAIN adrs :
        (/\ ApproveAnswered
         /\ result'.adr_id = id
         /\ adrs[id].status = "accepted"
         /\ id \in DOMAIN locks)
        => /\ result'.success
           /\ locks'[id].locked_at = clock'
           /\ locks'[id].digest = calculate_content_digest(adrs'[id])]_vars

\* C8: after every approval that reports success the lock store holds the
\* Lock Record of the approved decision.
C8_ApprovedIsLocked ==
    [][(ApproveAnswered /\ result'.success)
        => /\ result'.adr_id \in DOMAIN locks'
           /\ locks'[result'.adr_id].digest
                = calculate_content_digest(adrs'[result'.adr_id])]_vars

\* C9: once a Lock Record exists for a decision id, every later state still
\* has a Lock Record for that id.
C9_LocksNeverRemoved ==
    [][\A id \in DOMAIN locks : id \in DOMAIN locks']_vars

\* C9 witness: a locked decision has since been superseded
C9_Witness ==
    \E id \in DOMAIN locks : adrs[id].status = "superseded"

AddsImport(diff, f, x) ==
    \E i \in 1..Len(diff) :
        diff[i].wellformed /\ diff[i].file = f /\ x \in diff[i].added

\* decision K disallows import x
Disallows(K, x) == x \in extract_policy(AsRecord(adrs[K])).disallow

\* the added disallowed imports of the analysed diff, over the decisions Ks
DisallowedAdds(Ks) ==
    {t \in Ks \X GuardFiles \X GuardImports :
        AddsImport(report.diff, t[2], t[3]) /\ Disallows(t[1], t[3])}

AcceptedAdrs == {K \in DOMAIN adrs : adrs[K].status = "accepted"}

ReportsViolation(K, f, x) ==
    \E v \in report.violations :
        /\ v.type = "disallowed_import"
        /\ v.severity = "error"
        /\ v.file = f
        /\ v.import = x
        /\ v.adr_id = K

\* C2 as stated: for every accepted decision K disallowing X and every diff
\* adding an import of X in F, the report has an error-severity
\* disallowed-import violation with file F and decision K; one such decision
\* and one such import give exactly one error violation.
C2_EveryAcceptedDecisionReported ==
    report.op = "adr_guard" =>
        /\ \A t \in DisallowedAdds(AcceptedAdrs) : ReportsViolation(t[1], t[2], t[3])
        /\ Cardinality(DisallowedAdds(AcceptedAdrs)) = 1
            => Cardinality({v \in report.violations : v.severity = "error"}) = 1

\* C2 amended: the same for every accepted decision K that the index search
\* returned as relevant for the diff, which is every accepted decision when
\* the call rebuilds the index and no more than SearchK are accepted.
C2_RelevantDecisionReported ==
    report.op = "adr_guard" =>
        /\ report.relevant_adrs \subseteq AcceptedAdrs
        /\ \A t \in DisallowedAdds(report.relevant_adrs) :
                ReportsViolation(t[1], t[2], t[3])
        /\ Cardinality(DisallowedAdds(report.relevant_adrs)) = 1
            => Cardinality({v \in report.violations :
                               v.type = "disallowed_import" /\ v.severity = "error"}) = 1
        /\ (report.build_index /\ Cardinality(AcceptedAdrs) <= SearchK)
            => report.relevant_adrs = AcceptedAdrs
        /\ report.has_errors = (DisallowedAdds(report.relevant_adrs) # {})

\* C2 witness: a rebuilt index, one accepted decision disallowing an import
\* the diff adds, and its single violation reported
C2_Witness ==
    /\ report.op = "adr_guard"
    /\ report.build_index
    /\ Cardinality(DisallowedAdds(AcceptedAdrs)) = 1
    /\ Cardinality(report.violations) = 1

(***************************************************************************)
(* Properties of the Policy Extractor (SpecExtract).                       *)
(***************************************************************************)
\* the words that open a directive phrase
DirectiveWords == {"prefer", "replace", "avoid", "ban"}

\* the prose contains a recognized directive phrase
HasDirectivePhrase(t) == \E i \in 1..Len(t) : Lower(t[i]) \in DirectiveWords

\* the structured block has at least one non-empty collection
NonEmptyBlock(policy) ==
    policy.present /\ ~IsEmptyModel(extract_structured_policy(policy))

C4_NoPolicyNoPhrase ==
    (extraction.done /\ ~record.policy.present /\ ~HasDirectivePhrase(record.content)) =>
        /\ ~extraction.has_policy
        /\ record.status = "accepted" => Len(extraction.warnings) >= 1

\* C4 witness: an accepted decision with plain prose and no policy
C4_Witness ==
    /\ extraction.done
    /\ ~record.policy.present
    /\ record.content = <<"use", "flask">>
    /\ record.status = "accepted"
    /\ Len(extraction.warnings) >= 1

VerifyAnswered == result' # result /\ result'.op = "verify"

\* a step in which adr_supersede answered
SupersedeAnswered == result' # result /\ result'.op = "adr_supersede"

\* C11: verify never changes the lock store: after verify reports
\* tampered = true the decision's stored digest and locked_at are what they
\* were before the call, and a stored Lock Record changes only in a step in
\* which adr_approve succeeds for that decision.
C11_VerifyKeepsLocks ==
    [][/\ VerifyAnswered => locks' = locks
       /\ \A id \in DOMAIN locks :
            (id \in DOMAIN locks' /\ locks'[id] # locks[id])
            => (ApproveAnswered /\ result'.success /\ result'.adr_id = id)]_vars

\* C11 witness: verify has just reported a locked decision as tampered and
\* the stored digest is still the expected one
C11_Witness ==
    /\ result.op = "verify"
    /\ result.tampered
    /\ result.adr_id \in DOMAIN locks
    /\ locks[result.adr_id].digest = result.expected_digest
    /\ locks[result.adr_id].digest # calculate_content_digest(adrs[result.adr_id])

C13_ApproveOnlyFromProposed ==
    [][\A id \in DOMAIN adrs :
          (ApproveAnswered /\ result'.adr_id = id /\ adrs[id].status # "proposed")
          => (~result'.success /\ adrs' = adrs)]_vars

\* C14: adr_create always creates the ADR with status proposed: the file it
\* writes has status proposed, the status of the response, whatever status
\* the payload carries.
C14_CreateAlwaysProposed ==
    [][(CreateAnswered /\ result'.success)
          => /\ adrs'[result'.id].status = "proposed"
             /\ adrs'[result'.id].status = result'.status]_vars

\* B lists A in supersedes
Supersedes(B, A) == B \in DOMAIN adrs /\ A \in SeqToSet(adrs[B].supersedes)

\* A lists B in superseded_by
SupersededBy(A, B) == A \in DOMAIN adrs /\ B \in SeqToSet(adrs[A].superseded_by)

\* C16: after any sequence of adr_create, adr_supersede and adr_approve
\* calls, supersession links are bidirectional (B lists A in supersedes iff
\* A exists and lists B in superseded_by) and a superseded ADR has status
\* superseded.
C16_LinksBidirectional ==
    /\ \A A \in AdrIds, B \in AdrIds : Supersedes(B, A) <=> SupersededBy(A, B)
    /\ \A A \in DOMAIN adrs :
          adrs[A].superseded_by # <<>> => adrs[A].status = "superseded"

(***************************************************************************)
(* Properties of id generation (SpecIds).                                  *)
(***************************************************************************)
\* C15: when the directory's ADRs have highest number n, creating an ADR
\* assigns ADR-(n+1) zero-padded to four digits, ADR-0001 in an empty
\* directory; the new id is larger than every existing one.  Stated for
\* every payload with a title, on every directory reached.
C15_NextIdAssigned ==
    \A payload \in Payloads :
        ~payload.title_empty =>
            LET n == IF DOMAIN adrs = {} THEN 0 ELSE Max(DOMAIN adrs)
                r == create(adrs, payload)
            IN /\ r.response.success
               /\ r.response.id = n + 1
               /\ Len(format_adr_id(r.response.id)) = 4
               /\ DOMAIN r.dir = DOMAIN adrs \cup {n + 1}

(***************************************************************************)
(* Properties of the guard and the semantic index, continued.              *)
(***************************************************************************)
\* C17: a diff with malformed and well-formed hunks does not abort analyze:
\* the report holds the violations computed from the well-formed hunks
\* (for the decisions retrieved) and a warning-severity notice for every
\* skipped hunk.
C17_MalformedHunkContained ==
    report.op = "adr_guard" =>
        /\ report.success
        /\ \A i \in 1..Len(report.diff) :
              ~report.diff[i].wellformed =>
                  /\ report.has_warnings
                  /\ \E v \in report.violations :
                        /\ v.type = "skipped_hunk"
                        /\ v.severity = "warning"
                        /\ v.file = report.diff[i].file
        /\ {<<v.adr_id, v.file, v.import>> :
               v \in {w \in report.violations : w.severity = "error"}}
             = DisallowedAdds(report.relevant_adrs)

\* C17 witness: one malformed hunk, one well-formed hunk that adds a
\* disallowed import; the report has its error and the warning
C17_Witness ==
    /\ report.op = "adr_guard"
    /\ Len(report.diff) = 2
    /\ ~report.diff[1].wellformed
    /\ report.diff[2].wellformed
    /\ Cardinality({v \in report.violations : v.severity = "error"}) = 1
    /\ Cardinality({v \in report.violations : v.severity = "warning"}) = 1

\* the index reflects the decision set as it is now
IndexUpToDate ==
    /\ index.built
    /\ index.hashes = [i \in DOMAIN adrs |-> content_hash(adrs[i])]

KeptOf(ranking, S) == SelectSeq(ranking, LAMBDA i : index.status_by_id[i] \in S)

\* C19: the decisions returned by a search with filter_status = S are the
\* first k decisions of the unfiltered ranking that have a status in S, in
\* the order of the unfiltered ranking.
C19_FilterAfterRanking ==
    (result.op = "adr_semantic_match" /\ result.filter_status.given) =>
        LET kept == KeptOf(result.ranking, result.filter_status.statuses)
        IN [j \in 1..Len(result.matches) |-> result.matches[j].adr_id]
             = SubSeq(kept, 1, Min2(result.k, Len(kept)))

(***************************************************************************)
(* Properties of the Policy Extractor (SpecExtract), continued.            *)
(***************************************************************************)
\* C20: a symbol that the structured policy block places under one
\* disposition (disallow or prefer) and a prose pattern under the other is
\* listed in the merged Policy Model only under the structured disposition.
C20_StructuredDispositionWins ==
    (extraction.done /\ record.policy.present) =>
        \A x \in StructLibs :
            /\ (/\ x \in record.policy.disallow
                /\ x \notin record.policy.prefer
                /\ x \in pattern_prefer(record.content))
               => (x \in extraction.policy.disallow /\ x \notin extraction.policy.prefer)
            /\ (/\ x \in record.policy.prefer
                /\ x \notin record.policy.disallow
                /\ x \in pattern_disallow(record.content))
               => (x \in extraction.policy.prefer /\ x \notin extraction.policy.disallow)

\* C20 witness: the block disallows django, the prose prefers it
C20_Witness ==
    /\ extraction.done
    /\ record.policy.present
    /\ record.policy.disallow = {"django"}
    /\ record.policy.prefer = {}
    /\ record.content = <<"prefer", "Django", "over", "flask">>
    /\ extraction.policy.disallow = {"django", "flask"}
    /\ extraction.policy.prefer = {}

(***************************************************************************)
(* Properties of the ESLint rule extractor (SpecEslint).                   *)
(***************************************************************************)
\* the preferred libraries: the values of preferred_imports
PreferredSet(rules) == {rules.preferred_imports[x] : x \in DOMAIN rules.preferred_imports}

\* C21: pattern extraction assigns dispositions by phrase: for "replace A
\* with B", A is in the disallowed set and B in the preferred set; for "use
\* A instead of B", A is in the preferred set and B in the disallowed set
\* (for library names the extractor accepts).
C21_DispositionByPhrase ==
    (extraction.done /\ record.status = "accepted") =>
        LET t == eslint_content(record)
            banned == SeqToSet(extraction.rules.banned_imports)
            preferred == PreferredSet(extraction.rules)
        IN \A i \in 1..Len(t) :
              /\ (/\ ReplaceAt(t, i)
                  /\ normalize_library_name(t[i + 1]) # None
                  /\ normalize_library_name(t[i + 3]) # None)
                 => (/\ normalize_library_name(t[i + 1]) \in banned
                     /\ normalize_library_name(t[i + 3]) \in preferred)
              /\ (/\ UseInsteadOfAt(t, i)
                  /\ normalize_library_name(t[i + 1]) # None
                  /\ normalize_library_name(t[i + 4]) # None)
                 => (/\ normalize_library_name(t[i + 1]) \in preferred
                     /\ normalize_library_name(t[i + 4]) \in banned)

(***************************************************************************)
(* Properties of the command line (SpecCli).                               *)
(***************************************************************************)
\* C22: the index command exits with code 0 whenever index generation
\* completes without raising, and with code 3 only when generation raises.
C22_IndexExitCode ==
    result.op = "index" =>
        /\ ~result.generation_raised => result.exit_code = 0
        /\ result.exit_code = 3 => result.generation_raised

\* the validated ADR files with an error-level issue
WithErrorIssue(ids) ==
    {i \in ids : adrs[i].parse_error
                 \/ \E issue \in validate_semantic_rules(i, adrs[i]) : issue.level = "error"}

FailingSteps == {i \in 1..Len(record) : record[i] # "returns"}

\* the first step that raises, if any
FirstFailing == MinOf(FailingSteps)

IntendedType(key) == IF key = "topic" THEN "str" ELSE "list"

HasArgumentDict(message) == message.has_arguments /\ message.arguments.type = "dict"

\* every argument has its intended type
WellBehaved(message) ==
    /\ HasArgumentDict(message)
    /\ \A key \in DOMAIN message.arguments.items :
          message.arguments.items[key].type = IntendedType(key)

\* C25: for a call whose arguments all have their intended type, the
\* middleware forwards every argument value unchanged; it replaces a value
\* only when the value is a stringified JSON object or array sent in place
\* of an object, leaves a JSON-looking string that fails to parse as it is,
\* and calls the next handler exactly once in every case.
C25_WellBehavedUnchanged ==
    result.op = "on_call_tool" =>
        /\ result.calls = 1
        /\ WellBehaved(record) => result.forwarded = record
        /\ HasArgumentDict(record) =>
              \A key \in DOMAIN record.arguments.items :
                 LET sent == record.arguments.items[key]
                     got == result.forwarded.arguments.items[key]
                 IN /\ got # sent =>
                          /\ is_stringified_json(sent)
                          /\ IntendedType(key) # "str"
                    /\ (is_stringified_json(sent) /\ ~json_loads(sent.chars).ok)
                          => got = sent

(***************************************************************************)
(* Properties of the supersession links (Spec), continued.                 *)
(***************************************************************************)
\* C26: after any sequence of adr_create, adr_approve and adr_supersede
\* calls, every ADR file whose status is superseded has a non-empty
\* superseded_by list.
C26_SupersededHasSupersededBy ==
    \A A \in DOMAIN adrs :
        adrs[A].status = "superseded" => adrs[A].superseded_by # <<>>

\* C27: no sequence of adr_create, adr_approve and adr_supersede calls
\* leaves an ADR file that lists its own id in supersedes or in
\* superseded_by, adr_approve with the approved ADR's own id in
\* supersede_ids included.
C27_NoSelfReference ==
    \A A \in DOMAIN adrs :
        /\ A \notin SeqToSet(adrs[A].supersedes)
        /\ A \notin SeqToSet(adrs[A].superseded_by)

\* C28: whenever adr_supersede returns success false, the ADR directory is
\* as it was before the call: no new ADR file has been created and the old
\* ADR's status and links are unchanged, also when the old ADR's file was
\* made read-only by an earlier adr_approve with make_readonly.
C28_FailedSupersedeLeavesDirectory ==
    [][(SupersedeAnswered /\ ~result'.success) => adrs' = adrs]_vars

(***************************************************************************)
(* Properties of concurrent creation (SpecConcurrent).                     *)
(***************************************************************************)
\* C29: two ADR creations running concurrently against the same ADR
\* directory never produce two ADR files with the same id.
C29_ConcurrentCreatesDistinctIds ==
    \A f \in DOMAIN adrs, g \in DOMAIN adrs :
        f # g => file_id(f) # file_id(g)

(***************************************************************************)
(* Properties of id generation (SpecIds), continued.                       *)
(***************************************************************************)
\* C30: for every set of existing ADR ids, the id generated for a new ADR
\* is ADR- followed by exactly four digits, the format ADRFrontMatter
\* accepts, so creation never fails on its own generated id, also when the
\* highest existing id is ADR-9999.
C30_GeneratedIdValid ==
    /\ valid_adr_id(format_adr_id(next_adr_num(adrs)))
    /\ \A payload \in Payloads :
          ~create(adrs, payload).response.success => payload.title_empty

====
